---- MODULE Spec2Model ----
(***************************************************************************)
(* Model of scripts/build_competitions_seed.py: the text-to-structure      *)
(* normalisation of competition rows (split_cell, extract_label,           *)
(* clean_label, label_keys, best_match, parse_range, build_seed_rows).     *)
(*                                                                         *)
(* A Python str is a sequence of characters.  An ASCII character is the    *)
(* one-character string itself; a non-ASCII character is written by its    *)
(* code point, "U+81F3".  Optional values: None is <<>>, a present string  *)
(* s is <<s>>, a present date is <<y, m, d>>.                              *)
(***************************************************************************)
EXTENDS Integers, Sequences, FiniteSets, TLC

VARIABLES
    cell, c, pos, depth, buf, split_out, spc,     \* split_cell, one scan
    parts, vkeys, want_unlabeled, picked, mpc,    \* best_match, one call
    seg, context, range, rpc,                     \* parse_range, one call
    rows, run, rix, out, oix, seen, dedup, built, bpc   \* build_seed_rows, two runs

split_vars == <<cell, c, pos, depth, buf, split_out, spc>>
match_vars == <<parts, vkeys, want_unlabeled, picked, mpc>>
range_vars == <<seg, context, range, rpc>>
build_vars == <<rows, run, rix, out, oix, seen, dedup, built, bpc>>
vars == <<split_vars, match_vars, range_vars, build_vars>>

----------------------------------------------------------------------------
(* Characters.                                                             *)

\* The characters of the model in code point order (what sorted() compares).
CodeOrder ==
    << " ", "(", ")", ",", "-", "/",
       "0", "1", "2", "3", "4", "5", "6", "7", "8", "9",
       ":", ";", "A", "B", "C", "|",
       "U+3000", "U+3001",
       "U+4E0E", "U+516C", "U+522B", "U+533A", "U+53CA", "U+540D", "U+548C",
       "U+5B98", "U+5B9A", "U+5DF2", "U+5E03", "U+5F0F", "U+5F85",
       "U+622A", "U+62A5", "U+63A8", "U+65B9", "U+672A", "U+675F",
       "U+6B62", "U+6B63", "U+6D4B", "U+7EC4", "U+7ED3", "U+81F3",
       "U+8BA1", "U+8D5B", "U+9053", "U+9879", "U+9884",
       "U+FF08", "U+FF09", "U+FF0C", "U+FF0F", "U+FF1A", "U+FF1B" >>

Ord(ch) == CHOOSE i \in 1..Len(CodeOrder) : CodeOrder[i] = ch

\* str.isspace / the regex class \s: SPACE and IDEOGRAPHIC SPACE.
Whitespace == {" ", "U+3000"}

\* The regex class \d, in value order.
Digits == <<"0", "1", "2", "3", "4", "5", "6", "7", "8", "9">>
IsDigit(ch) == \E i \in 1..10 : Digits[i] = ch
DigitVal(ch) == (CHOOSE i \in 1..10 : Digits[i] = ch) - 1

OpenParens == {"U+FF08", "("}
CloseParens == {"U+FF09", ")"}
Parens == OpenParens \cup CloseParens

TOP_LEVEL_SEPS == {",", "U+FF0C", ";", "U+FF1B", "|", "/"}

\* Words of the source, character by character.
W_TuiCe == <<"U+63A8", "U+6D4B">>                        \* "estimated"
W_ZhengShiBaoMing == <<"U+6B63", "U+5F0F", "U+62A5", "U+540D">>
W_ZhengShi == <<"U+6B63", "U+5F0F">>
W_YiJieShu == <<"U+5DF2", "U+7ED3", "U+675F">>
W_TuiDing == <<"U+63A8", "U+5B9A">>
W_YuJi == <<"U+9884", "U+8BA1">>
W_GuanFang == <<"U+5B98", "U+65B9">>                     \* "official"
W_WeiGongBu == <<"U+672A", "U+516C", "U+5E03">>          \* "not yet announced"
W_Zhi == <<"U+6B62">>                                    \* "cutoff"
W_JieZhi == <<"U+622A", "U+6B62">>                       \* "cutoff"
W_To == <<"U+81F3">>                                     \* "to"
W_Zu == <<"U+7EC4">>                                     \* "group"

----------------------------------------------------------------------------
(* str operations.                                                         *)

\* t occurs in s at index i.
OccursAt(s, i, t) ==
    /\ i >= 1
    /\ i + Len(t) - 1 <= Len(s)
    /\ \A j \in 1..Len(t) : s[i + j - 1] = t[j]

\* t in s
Contains(s, t) == \E i \in 1..Len(s) : OccursAt(s, i, t)

\* s.find(t) + 1; 0 when absent
Find(s, t) ==
    IF Contains(s, t)
    THEN CHOOSE i \in 1..Len(s) :
            OccursAt(s, i, t) /\ \A j \in 1..(i - 1) : ~OccursAt(s, j, t)
    ELSE 0

EndsWith(s, t) == Len(t) <= Len(s) /\ OccursAt(s, Len(s) - Len(t) + 1, t)

\* The({F(x) : x \in {e}}) is F(x) after the assignment x = e: the value of e
\* is computed once and then named.
The(S) == CHOOSE r \in S : TRUE

Drop(s, n) == SubSeq(s, n + 1, Len(s))
Take(s, n) == SubSeq(s, 1, n)

RECURSIVE LStripSet(_, _)
LStripSet(s, chars) ==
    IF s # <<>> /\ s[1] \in chars THEN LStripSet(Tail(s), chars) ELSE s

RECURSIVE RStripSet(_, _)
RStripSet(s, chars) ==
    IF s # <<>> /\ s[Len(s)] \in chars
    THEN RStripSet(Take(s, Len(s) - 1), chars) ELSE s

\* s.strip(chars)
StripSet(s, chars) == RStripSet(LStripSet(s, chars), chars)

\* s.strip()
Strip(s) == StripSet(s, Whitespace)

\* re.sub(r"\s+", "", s)
RemoveWhitespace(s) == SelectSeq(s, LAMBDA ch : ch \notin Whitespace)

\* s.replace(t, ""): non-overlapping occurrences, left to right, one pass.
RECURSIVE Remove(_, _)
Remove(s, t) ==
    IF s = <<>> THEN <<>>
    ELSE IF OccursAt(s, 1, t) THEN Remove(Drop(s, Len(t)), t)
    ELSE <<s[1]>> \o Remove(Tail(s), t)

\* s.split(t): every part, the empty ones included.
RECURSIVE Split(_, _)
Split(s, t) ==
    IF ~Contains(s, t) THEN <<s>>
    ELSE LET i == Find(s, t)
         IN  <<Take(s, i - 1)>> \o Split(Drop(s, i + Len(t) - 1), t)

\* s.split(t, 1)[0]
SplitFirst(s, t) == IF Contains(s, t) THEN Take(s, Find(s, t) - 1) ELSE s

\* the part after the first t, for left, right = s.split(t, 1)
SplitRest(s, t) == Drop(s, Find(s, t) + Len(t) - 1)

Range(f) == {f[i] : i \in DOMAIN f}

\* Python's < on str: code point by code point, a proper prefix first.
RECURSIVE StrLess(_, _)
StrLess(a, b) ==
    IF b = <<>> THEN FALSE
    ELSE IF a = <<>> THEN TRUE
    ELSE IF a[1] = b[1] THEN StrLess(Tail(a), Tail(b))
    ELSE Ord(a[1]) < Ord(b[1])

----------------------------------------------------------------------------
(* Label resolver: extract_label, clean_label, label_keys.                 *)

None == <<>>
Some(v) == <<v>>

\* Index of the first parenthesis of s at or after i; 0 when there is none.
NextParen(s, i) ==
    IF \E j \in i..Len(s) : s[j] \in Parens
    THEN CHOOSE j \in i..Len(s) :
            s[j] \in Parens /\ \A k \in i..(j - 1) : s[k] \notin Parens
    ELSE 0

\* PAREN_RE (an opening parenthesis, no parentheses, a closing one) at index i: the index of the closing
\* parenthesis, 0 when the pattern does not match at i.
ParenMatchEnd(s, i) ==
    IF i <= Len(s) /\ s[i] \in OpenParens
    THEN LET j == NextParen(s, i + 1)
         IN  IF j # 0 /\ s[j] \in CloseParens THEN j ELSE 0
    ELSE 0

\* PAREN_RE.findall(s), scanning from index i.
RECURSIVE ParenFindAll(_, _)
ParenFindAll(s, i) ==
    IF i > Len(s) THEN <<>>
    ELSE LET e == ParenMatchEnd(s, i)
         IN  IF e # 0
             THEN <<SubSeq(s, i + 1, e - 1)>> \o ParenFindAll(s, e + 1)
             ELSE ParenFindAll(s, i + 1)

\* re.sub(<the pattern of PAREN_RE>, "", s) of line 99, scanning from index i.
RECURSIVE RemoveParens(_, _)
RemoveParens(s, i) ==
    IF i > Len(s) THEN <<>>
    ELSE LET e == ParenMatchEnd(s, i)
         IN  IF e # 0 THEN RemoveParens(s, e + 1)
             ELSE <<s[i]>> \o RemoveParens(s, i + 1)

extract_label(part) ==
    The({ IF labels # <<>> THEN Strip(labels[Len(labels)]) ELSE <<>>
        : labels \in {ParenFindAll(part, 1)} })

NoiseTokens ==
    <<W_TuiCe, W_ZhengShiBaoMing, W_ZhengShi, W_YiJieShu, W_TuiDing, W_YuJi>>

\* for t in NoiseTokens[i..]: x = x.replace(t, "")
RECURSIVE RemoveTokens(_, _)
RemoveTokens(x, i) ==
    IF i > Len(NoiseTokens) THEN x
    ELSE The({RemoveTokens(y, i + 1) : y \in {Remove(x, NoiseTokens[i])}})

clean_label(label) ==
    IF label = <<>> THEN <<>>
    ELSE The({ The({StripSet(y, {"U+FF1A", ":"}) : y \in {RemoveTokens(x, 1)}})
             : x \in {RemoveWhitespace(label)} })

KeySeps == {<<"/">>, <<"U+FF0F">>, <<"U+4E0E">>, <<"U+548C">>, <<"U+53CA">>, <<"U+3001">>}

Suffixes ==
    { <<"U+8D5B", "U+9053">>, <<"U+8D5B", "U+533A">>, <<"U+8D5B", "U+9879">>,
      <<"U+7EC4", "U+522B">>, W_Zu }

KeyBlacklist == {W_TuiCe, W_GuanFang}

\* lines 54-57: the cleaned label and its parts
SplitKeys(cl) ==
    {cl} \cup UNION { {p \in Range(Split(cl, sep)) : p # <<>>} :
                      sep \in {x \in KeySeps : Contains(cl, x)} }

\* lines 60-64: the keys that end with a suffix, without it
SuffixStripped(keys) ==
    { Take(ks[1], Len(ks[1]) - Len(ks[2])) :
      ks \in { ks \in keys \X Suffixes :
                  EndsWith(ks[1], ks[2]) /\ Len(ks[1]) > Len(ks[2]) } }

label_keys(label) ==
    The({ IF cl = <<>> THEN {}
          ELSE The({ {k \in keys \cup SuffixStripped(keys) :
                          k # <<>> /\ k \notin KeyBlacklist}
                   : keys \in {SplitKeys(cl)} })
        : cl \in {clean_label(label)} })

option_keyset(part) == label_keys(extract_label(part))

----------------------------------------------------------------------------
(* Segmenter: split_cell.                                                  *)

Max(a, b) == IF a >= b THEN a ELSE b

\* lines 194-197: the depth after reading ch
DepthAfter(d, ch) ==
    IF ch \in OpenParens THEN d + 1
    ELSE IF ch \in CloseParens THEN Max(0, d - 1)
    ELSE d

IsSplitPointAnyDepth(d, ch) == ch \in TOP_LEVEL_SEPS

\* line 199
IsSplitPoint(d, ch) == d = 0 /\ ch \in TOP_LEVEL_SEPS

\* lines 200-203, 208-210: append the trimmed buffer when it is not empty
Flush(o, b) == IF Strip(b) # <<>> THEN Append(o, Strip(b)) ELSE o

\* One iteration of the loop of split_cell, lines 193-206.
ScanChar(st, ch) ==
    LET d == DepthAfter(st.depth, ch)
    IN  IF IsSplitPoint(d, ch)
        THEN [depth |-> d, buf |-> <<>>, out |-> Flush(st.out, st.buf)]
        ELSE [depth |-> d, buf |-> Append(st.buf, ch), out |-> st.out]

RECURSIVE ScanFrom(_, _, _)
ScanFrom(s, i, st) ==
    IF i > Len(s) THEN st
    ELSE The({ScanFrom(s, i + 1, nx) : nx \in {ScanChar(st, s[i])}})

split_cell(s) ==
    The({ IF cs = <<>> THEN <<>>
          ELSE The({ Flush(st.out, st.buf)
                   : st \in {ScanFrom(cs, 1,
                                 [depth |-> 0, buf |-> <<>>, out |-> <<>>])} })
        : cs \in {Strip(s)} })

----------------------------------------------------------------------------
(* Variant matcher: best_match.                                            *)

IsUnlabeled(p) == clean_label(extract_label(p)) = <<>>

BetterOrEqual(score, best_score) == score >= best_score /\ score > 0

\* line 238
Better(score, best_score) == score > best_score

\* lines 234-240, from index i on
RECURSIVE BestLoop(_, _, _, _, _)
BestLoop(ps, vk, i, best, best_score) ==
    IF i > Len(ps) THEN [best |-> best, best_score |-> best_score]
    ELSE The({ IF Better(score, best_score)
             THEN BestLoop(ps, vk, i + 1, Some(ps[i]), score)
             ELSE BestLoop(ps, vk, i + 1, best, best_score)
             : score \in {Cardinality(option_keyset(ps[i]) \cap vk)} })

UnlabeledPickStrict(ps, want) ==
    LET unlabeled == SelectSeq(ps, IsUnlabeled)
    IN  IF want /\ Len(unlabeled) = 1 THEN Some(unlabeled[1])
        ELSE IF Len(ps) = 1 THEN Some(ps[1])
        ELSE None

\* lines 227-232
UnlabeledPick(ps, want) ==
    The({ IF want /\ Len(unlabeled) = 1 THEN Some(unlabeled[1])
        ELSE IF Len(ps) = 1 THEN Some(ps[1])
        ELSE IF want /\ unlabeled # <<>> THEN Some(unlabeled[1])
        ELSE None
        : unlabeled \in {SelectSeq(ps, IsUnlabeled)} })

best_match(ps, vk, want) ==
    IF ps = <<>> THEN None
    ELSE IF vk = {} THEN UnlabeledPick(ps, want)
    ELSE The({ IF r.best_score > 0 THEN r.best
             ELSE IF Len(ps) = 1 THEN Some(ps[1]) ELSE None
             : r \in {BestLoop(ps, vk, 1, None, 0)} })

----------------------------------------------------------------------------
(* Date inference: parse_range.                                            *)

BASE_YEAR == 2026

\* int() of a run of digits
RECURSIVE ToInt(_)
ToInt(ds) ==
    IF ds = <<>> THEN 0
    ELSE ToInt(Take(ds, Len(ds) - 1)) * 10 + DigitVal(ds[Len(ds)])

AllDigits(s, i, n) == \A k \in i..(i + n - 1) : IsDigit(s[k])

\* FULL_DATE_RE = (\d{4})-(\d{2})-(\d{2}) matches at index i
FullAt(s, i) ==
    /\ i + 9 <= Len(s)
    /\ AllDigits(s, i, 4) /\ s[i + 4] = "-"
    /\ AllDigits(s, i + 5, 2) /\ s[i + 7] = "-"
    /\ AllDigits(s, i + 8, 2)

\* FULL_DATE_RE.search(s): the groups of the first match as integers, or None
FullSearch(s) ==
    IF \E i \in 1..Len(s) : FullAt(s, i)
    THEN LET i == CHOOSE i \in 1..Len(s) :
                    FullAt(s, i) /\ \A j \in 1..(i - 1) : ~FullAt(s, j)
         IN  << ToInt(SubSeq(s, i, i + 3)), ToInt(SubSeq(s, i + 5, i + 6)),
                ToInt(SubSeq(s, i + 8, i + 9)) >>
    ELSE None

\* MD_RE = (\d{2})-(\d{2}) matches at index i
MdAt(s, i) ==
    /\ i + 4 <= Len(s)
    /\ AllDigits(s, i, 2) /\ s[i + 2] = "-" /\ AllDigits(s, i + 3, 2)

\* MD_RE.search(s): the groups of the first match as integers, or None
MdSearch(s) ==
    IF \E i \in 1..Len(s) : MdAt(s, i)
    THEN LET i == CHOOSE i \in 1..Len(s) :
                    MdAt(s, i) /\ \A j \in 1..(i - 1) : ~MdAt(s, j)
         IN  << ToInt(SubSeq(s, i, i + 1)), ToInt(SubSeq(s, i + 3, i + 4)) >>
    ELSE None

IsLeap(y) == (y % 4 = 0 /\ y % 100 # 0) \/ y % 400 = 0

DaysInMonth(y, m) ==
    IF m = 2 THEN (IF IsLeap(y) THEN 29 ELSE 28)
    ELSE IF m \in {4, 6, 9, 11} THEN 30 ELSE 31

ValidDate(y, m, d) ==
    /\ y \in 1..9999
    /\ m \in 1..12
    /\ d \in 1..DaysInMonth(y, m)

\* The exception datetime.date raises, as a value that is no date.
ValueError == <<"ValueError">>

Clamp(x, lo, hi) == IF x < lo THEN lo ELSE IF x > hi THEN hi ELSE x

dateClamping(y, m, d) ==
    LET yy == Clamp(y, 1, 9999)
        mm == Clamp(m, 1, 12)
    IN  <<yy, mm, Clamp(d, 1, DaysInMonth(yy, mm))>>

\* datetime.date(y, m, d)
date(y, m, d) == IF ValidDate(y, m, d) THEN <<y, m, d>> ELSE ValueError

\* DateRange(start, end); an exception raised while an argument is evaluated
\* leaves parse_range before the DateRange exists.
DateRange(start, end) ==
    IF start = ValueError \/ end = ValueError
    THEN [raised |-> TRUE, start |-> None, end |-> None]
    ELSE [raised |-> FALSE, start |-> start, end |-> end]

infer_year_for_mmdd(mm, dd, start_mm, start_year, ctx) ==
    IF start_year # None /\ start_mm # None
    THEN (IF mm < start_mm[1] THEN start_year[1] + 1 ELSE start_year[1])
    ELSE IF start_mm # None /\ mm < start_mm[1]
    THEN (IF ctx = "res" THEN BASE_YEAR + 1 ELSE BASE_YEAR)
    ELSE BASE_YEAR

WrapYearsNoContext(s_mm, end_mm, ctx) ==
    IF s_mm > end_mm THEN <<BASE_YEAR - 1, BASE_YEAR>> ELSE <<BASE_YEAR, BASE_YEAR>>

\* lines 152-161: <<start_y, end_y>> of a month-day range without years
WrapYears(s_mm, end_mm, ctx) ==
    IF s_mm > end_mm
    THEN (IF ctx = "res" THEN <<BASE_YEAR, BASE_YEAR + 1>>
          ELSE <<BASE_YEAR - 1, BASE_YEAR>>)
    ELSE <<BASE_YEAR, BASE_YEAR>>

\* lines 112-130: the right half holds a full date
RangeEndFull(left, e, ctx) ==
    The({ LET end_date == v[1]
            start_full == v[2]
            start_md == v[3]
        IN  IF end_date = ValueError THEN DateRange(ValueError, ValueError)
            ELSE IF start_full # None
            THEN DateRange(date(start_full[1], start_full[2], start_full[3]), end_date)
            ELSE IF start_md # None
            THEN LET s_y == IF start_md[1] > e[2] THEN e[1] - 1 ELSE e[1]
                 IN  DateRange(date(s_y, start_md[1], start_md[2]), end_date)
            ELSE DateRange(None, end_date)
        : v \in {<<date(e[1], e[2], e[3]), FullSearch(left), MdSearch(left)>>} })

\* lines 133-163: the right half holds no full date
RangeEndMd(left, right, ctx) ==
    The({ LET end_md == v[1]
            start_full == v[2]
            start_md == v[3]
        IN  IF end_md = None THEN DateRange(None, None)
            ELSE IF start_full # None
            THEN LET start_date == date(start_full[1], start_full[2], start_full[3])
                     end_y == infer_year_for_mmdd(end_md[1], end_md[2],
                                  Some(start_full[2]), Some(start_full[1]), ctx)
                 IN  IF start_date = ValueError THEN DateRange(ValueError, ValueError)
                     ELSE DateRange(start_date, date(end_y, end_md[1], end_md[2]))
            ELSE IF start_md = None
            THEN DateRange(None, date(BASE_YEAR, end_md[1], end_md[2]))
            ELSE LET ys == WrapYears(start_md[1], end_md[1], ctx)
                 IN  DateRange(date(ys[1], start_md[1], start_md[2]),
                               date(ys[2], end_md[1], end_md[2]))
        : v \in {<<MdSearch(right), FullSearch(left), MdSearch(left)>>} })

\* lines 108-163
RangePhrase(left, right, ctx) ==
    The({ IF end_full # None THEN RangeEndFull(left, end_full, ctx)
        ELSE RangeEndMd(left, right, ctx)
        : end_full \in {FullSearch(right)} })

\* lines 165-179
SinglePhrase(s) ==
    The({ LET full == v[1]
            md == v[2]
        IN  IF full # None
            THEN LET d == date(full[1], full[2], full[3]) IN DateRange(d, d)
            ELSE IF md # None
            THEN LET d == date(BASE_YEAR, md[1], md[2]) IN DateRange(d, d)
            ELSE DateRange(None, None)
        : v \in {<<FullSearch(s), MdSearch(s)>>} })

\* lines 99-106: s_no_paren
\* if w in s and "U+81F3" not in s: s = s.split(w, 1)[0]
CutAt(s, w) ==
    IF Contains(s, w) /\ ~Contains(s, W_To) THEN SplitFirst(s, w) ELSE s

Preprocess(s) ==
    The({ The({ CutAt(s2, W_JieZhi) : s2 \in {CutAt(s1, W_Zhi)} })
        : s1 \in {RemoveWhitespace(RemoveParens(s, 1))} })

\* lines 108-179, for s_no_paren
ParsePhrase(s_no_paren, ctx) ==
    IF Contains(s_no_paren, W_To)
    THEN The({ RangePhrase(lr[1], lr[2], ctx)
             : lr \in {<<SplitFirst(s_no_paren, W_To), SplitRest(s_no_paren, W_To)>>} })
    ELSE SinglePhrase(s_no_paren)

parse_range(sg, ctx) ==
    IF sg = <<>> THEN DateRange(None, None)
    ELSE The({ IF s = <<>> \/ Contains(s, W_WeiGongBu)
               THEN DateRange(None, None)
               ELSE The({ ParsePhrase(s_no_paren, ctx)
                        : s_no_paren \in {Preprocess(s)} })
             : s \in {Strip(sg)} })

----------------------------------------------------------------------------
(* Records: stable_id, iso, the body of the loops of build_seed_rows.      *)
(* A row carries the columns the claims are about: the name, the three     *)
(* date cells and the notes.  The other pass-through columns (source tag,  *)
(* type tags, offline defence, basis year, evidence links) are left out.   *)

\* SHA-1 is taken to be free of collisions on the inputs of the model: the
\* twelve hex digits of the digest are represented by the hashed text
\* name + "|" + variant, so two ids are equal exactly when the texts are.
stable_id(name, variant) == <<"comp_", name \o <<"|">> \o variant>>

\* n as w decimal digits, zero-padded
RECURSIVE Pad(_, _)
Pad(n, w) == IF w = 0 THEN <<>> ELSE Pad(n \div 10, w - 1) \o <<Digits[(n % 10) + 1]>>

\* iso(d): d.isoformat() or None
iso(d) ==
    IF d = None THEN None
    ELSE Some(Pad(d[1], 4) \o <<"-">> \o Pad(d[2], 2) \o <<"-">> \o Pad(d[3], 2))

\* x or None, for a str x
OrNone(x) == IF x = <<>> THEN None ELSE Some(x)

\* pick or text, for an optional str pick
PickOr(pick, text) == IF pick # None /\ pick[1] # <<>> THEN pick[1] ELSE text

RECURSIVE Insert(_, _)
Insert(x, srt) ==
    IF srt = <<>> THEN <<x>>
    ELSE IF StrLess(x, Head(srt)) THEN <<x>> \o srt
    ELSE <<Head(srt)>> \o Insert(x, Tail(srt))

sortedAsIterated(xs) == xs

\* sorted(xs), for a list of different strings
RECURSIVE sorted(_)
sorted(xs) ==
    IF xs = <<>> THEN <<>>
    ELSE The({Insert(Head(xs), srt) : srt \in {sorted(Tail(xs))}})

\* lines 291-293: the fragments of the three date cells, in column order
AllParts(r) == split_cell(r.reg) \o split_cell(r.sub) \o split_cell(r.res)

\* lines 295-296
Labels(r) == {clean_label(extract_label(p)) : p \in Range(AllParts(r))} \ {<<>>}

\* line 298
HasUnlabeled(r) == \E p \in Range(AllParts(r)) : IsUnlabeled(p)

\* The orders in which iterating the set S can yield its elements.
IterationOrders(S) == {f \in [1..Cardinality(S) -> S] : Range(f) = S}

\* lines 299-303, for the order in which the set labels is iterated
Variants(r, order) ==
    The({ IF variants = <<>> THEN <<<<>>>>
        ELSE IF HasUnlabeled(r) THEN <<<<>>>> \o variants
        ELSE variants
        : variants \in {sorted(order)} })

\* lines 306-313, one column: the text handed to parse_range
ColumnText(cellv, variant) ==
    The({ The({ PickOr(pick, Strip(cellv))
              : pick \in {best_match(a[1], a[2], variant = <<>>)} })
        : a \in {<<split_cell(cellv),
                   IF variant # <<>> THEN label_keys(variant) ELSE {}>>} })

\* lines 319-344: the record of one variant of row r, from the texts t and
\* the ranges g of its columns; raised when a parse_range of lines 315-317
\* raises.
RecordOf(r, variant, t, g) ==
    LET name == t[4]
        reg_text == t[1]
        sub_text == t[2]
        res_text == t[3]
        reg_range == g[1]
        sub_range == g[2]
        res_range == g[3]
    IN  [ raised |-> reg_range.raised \/ sub_range.raised \/ res_range.raised,
          rec |->
            [ id |-> stable_id(name, variant),
              name |-> name,
              variant |-> variant,
              display_name |-> IF variant = <<>> THEN name
                               ELSE name \o <<"U+FF08">> \o variant \o <<"U+FF09">>,
              notes |-> OrNone(Strip(r.notes)),
              registration_start |-> iso(reg_range.start),
              registration_end |-> iso(reg_range.end),
              submission_start |-> iso(sub_range.start),
              submission_end |-> iso(sub_range.end),
              result_start |-> iso(res_range.start),
              result_end |-> iso(res_range.end),
              registration_text |-> OrNone(reg_text),
              submission_text |-> OrNone(sub_text),
              result_text |-> OrNone(res_text) ] ]

\* lines 306-317: the name, the text of each column for the variant, and
\* the range parsed from each text
SeedRecord(r, variant) ==
    The({ The({ RecordOf(r, variant, t, g)
              : g \in {<<parse_range(t[1], "reg"), parse_range(t[2], "sub"),
                         parse_range(t[3], "res")>>} })
        : t \in {<<ColumnText(r.reg, variant), ColumnText(r.sub, variant),
                   ColumnText(r.res, variant), Strip(r.name)>>} })

\* lines 305-344: the records of row r, one per variant
RowRecords(r, order) ==
    The({ [i \in 1..Len(variants) |-> SeedRecord(r, variants[i])]
        : variants \in {Variants(r, order)} })

KeepAlways(o, ids) == TRUE

\* lines 350-351: the record is kept unless its id was seen
KeepRecord(o, ids) == o.id \notin ids

----------------------------------------------------------------------------
(* Inputs.                                                                 *)

MaxCellLen == 4
MaxParts == 3
MaxPieces == 3
MaxRows == 2

\* Every sequence over S of length at most n.
SeqsUpTo(S, n) == UNION { [1..k -> S] : k \in 0..n }

RECURSIVE Flatten(_)
Flatten(ss) == IF ss = <<>> THEN <<>> ELSE Head(ss) \o Flatten(Tail(ss))

\* Characters of the cells given to split_cell: a letter, a space, an ASCII
\* separator, the full-width slash, and parentheses of both widths.
CellChars == {"A", " ", ",", "U+FF0F", "(", ")", "U+FF09"}

\* Fragments given to best_match: labelled A, B and A/B, unlabelled, and
\* labelled with a noise word only.
FragPool ==
    { <<"(", "A", ")">>,
      <<"U+FF08", "B", "U+FF09">>,
      <<"3">>,
      <<"(", "A", "/", "B", ")">>,
      <<"4", "(", "U+63A8", "U+6D4B", ")">> }

KeyPool == { <<"A">>, <<"B">>, <<"A", "/", "B">>, <<"C">> }

\* Pieces of the texts given to parse_range.
RangePieces ==
    { <<"0", "8", "-", "3", "0">>,
      <<"0", "1", "-", "0", "6">>,
      <<"1", "3", "-", "3", "2">>,
      <<"0", "2", "-", "2", "9">>,
      <<"2", "0", "2", "6", "-", "0", "3", "-", "0", "1">>,
      <<"2", "0", "2", "6", "-", "0", "2", "-", "3", "0">>,
      W_To, W_Zhi, W_WeiGongBu,
      <<"U+FF08", "1", "3", "-", "3", "2", ")">> }

Contexts == {"reg", "sub", "res"}

RowOf(name, reg, sub, res, notes) ==
    [name |-> name, reg |-> reg, sub |-> sub, res |-> res, notes |-> notes]

T_0106 == <<"0", "1", "-", "0", "6">>
T_0830 == <<"0", "8", "-", "3", "0">>
T_Wrap == T_0830 \o W_To \o T_0106

\* Rows given to build_seed_rows: two labelled variants (B before A) beside
\* unlabelled cells; an unlabelled row with notes; a blank name; a row of the
\* same name with nothing but the name; a label that is a blacklisted key;
\* a day that is no calendar day.
RowPool ==
    { RowOf(<<"A">>, T_0106 \o <<"(", "B", ")", ",">> \o T_0830 \o <<"U+FF08", "A", "U+FF09">>,
            T_Wrap, T_Wrap, <<>>),
      RowOf(<<"A">>, T_0830, <<>>, <<>>, <<"C">>),
      RowOf(<<" ">>, T_0106, <<>>, <<>>, <<>>),
      RowOf(<<"A", " ">>, <<>>, <<>>, <<>>, <<>>),
      RowOf(<<"B">>, T_0106 \o <<"(">> \o W_GuanFang \o <<")", ",">> \o T_0830 \o <<"(", "A", ")">>,
            <<>>, <<>>, <<>>),
      RowOf(<<"B">>, <<"1", "3", "-", "3", "2">>, <<>>, <<>>, <<>>) }

NoRange == [raised |-> FALSE, start |-> None, end |-> None]

----------------------------------------------------------------------------
(* split_cell, one character at a time.                                    *)

SplitIdle ==
    /\ cell = <<>> /\ c = <<>> /\ pos = 0 /\ depth = 0
    /\ buf = <<>> /\ split_out = <<>> /\ spc = "idle"

MatchIdle ==
    /\ parts = <<>> /\ vkeys = {} /\ want_unlabeled = FALSE
    /\ picked = None /\ mpc = "idle"

RangeIdle ==
    /\ seg = <<>> /\ context = "reg" /\ range = NoRange /\ rpc = "idle"

BuildIdle ==
    /\ rows = <<>> /\ run = 0 /\ rix = 0 /\ out = <<>> /\ oix = 0
    /\ seen = {} /\ dedup = <<>> /\ built = <<>> /\ bpc = "idle"

SplitInit ==
    /\ cell \in SeqsUpTo(CellChars, MaxCellLen)
    /\ c = <<>> /\ pos = 0 /\ depth = 0
    /\ buf = <<>> /\ split_out = <<>> /\ spc = "call"
    /\ MatchIdle /\ RangeIdle /\ BuildIdle

\* lines 183-191
SplitEnter ==
    /\ spc = "call"
    /\ IF Strip(cell) = <<>>
       THEN /\ spc' = "done"
            /\ UNCHANGED <<c, pos>>
       ELSE /\ c' = Strip(cell)
            /\ pos' = 1
            /\ spc' = "scan"
    /\ UNCHANGED <<cell, depth, buf, split_out>>
    /\ UNCHANGED <<match_vars, range_vars, build_vars>>

\* lines 193-206
SplitScan ==
    /\ spc = "scan"
    /\ pos <= Len(c)
    /\ LET st == ScanChar([depth |-> depth, buf |-> buf, out |-> split_out], c[pos])
       IN  /\ depth' = st.depth
           /\ buf' = st.buf
           /\ split_out' = st.out
    /\ pos' = pos + 1
    /\ UNCHANGED <<cell, c, spc>>
    /\ UNCHANGED <<match_vars, range_vars, build_vars>>

\* lines 208-211
SplitTail ==
    /\ spc = "scan"
    /\ pos > Len(c)
    /\ split_out' = Flush(split_out, buf)
    /\ spc' = "done"
    /\ UNCHANGED <<cell, c, pos, depth, buf>>
    /\ UNCHANGED <<match_vars, range_vars, build_vars>>

SplitNext == SplitEnter \/ SplitScan \/ SplitTail

SpecSplit == SplitInit /\ [][SplitNext]_vars

----------------------------------------------------------------------------
(* best_match, one call.                                                   *)

MatchInit ==
    /\ parts \in SeqsUpTo(FragPool, MaxParts)
    /\ vkeys \in SUBSET KeyPool
    /\ want_unlabeled \in BOOLEAN
    /\ picked = None /\ mpc = "call"
    /\ SplitIdle /\ RangeIdle /\ BuildIdle

BestMatchCall ==
    /\ mpc = "call"
    /\ picked' = best_match(parts, vkeys, want_unlabeled)
    /\ mpc' = "return"
    /\ UNCHANGED <<parts, vkeys, want_unlabeled>>
    /\ UNCHANGED <<split_vars, range_vars, build_vars>>

MatchNext == BestMatchCall

SpecMatch == MatchInit /\ [][MatchNext]_vars

----------------------------------------------------------------------------
(* parse_range, one call.                                                  *)

RangeInit ==
    /\ seg \in {Flatten(ps) : ps \in SeqsUpTo(RangePieces, MaxPieces)}
    /\ context \in Contexts
    /\ range = NoRange /\ rpc = "call"
    /\ SplitIdle /\ MatchIdle /\ BuildIdle

ParseRangeCall ==
    /\ rpc = "call"
    /\ range' = parse_range(seg, context)
    /\ rpc' = "return"
    /\ UNCHANGED <<seg, context>>
    /\ UNCHANGED <<split_vars, match_vars, build_vars>>

RangeNext == ParseRangeCall

SpecRange == RangeInit /\ [][RangeNext]_vars

----------------------------------------------------------------------------
(* Properties of split_cell (SpecSplit).                                   *)

\* The separators the claim lists: comma, semicolon, pipe and slash in either
\* width.
ListedSeps == TOP_LEVEL_SEPS \cup {"U+FF0F", "U+FF5C"}

\* Opening minus closing parentheses among s[a..b].
Nesting(s, a, b) ==
    Cardinality({i \in a..b : s[i] \in OpenParens})
        - Cardinality({i \in a..b : s[i] \in CloseParens})

\* s[j] and s[k] are a pair of parentheses that match each other.
MatchedPair(s, j, k) ==
    /\ j < k
    /\ s[j] \in OpenParens
    /\ s[k] \in CloseParens
    /\ Nesting(s, j + 1, k - 1) = 0
    /\ \A m \in (j + 1)..(k - 1) : Nesting(s, j + 1, m) >= 0

InsideParens(s, i) ==
    \E j \in 1..(i - 1), k \in (i + 1)..Len(s) : MatchedPair(s, j, k)

SepsInsideParens(s) ==
    \A i \in 1..Len(s) : s[i] \in ListedSeps => InsideParens(s, i)

C4_SingleFragment ==
    (spc = "done" /\ Strip(cell) # <<>> /\ SepsInsideParens(Strip(cell)))
        => split_out = <<Strip(cell)>>

C4_SplitStep ==
    (spc = "scan" /\ pos <= Len(c) /\ buf' # Append(buf, c[pos]))
        => (depth' = 0 /\ c[pos] \in TOP_LEVEL_SEPS)

\* C4: a non-empty cell whose separators all lie inside matched parentheses
\* (of either width, nested or not) comes back as the single fragment equal to
\* the trimmed cell; the scan leaves a character out of the buffer (splits)
\* only for a separator read at depth 0; the depth is never negative.
C4_Segmenter ==
    /\ [](C4_SingleFragment /\ depth >= 0)
    /\ [][C4_SplitStep]_vars

\* A finished scan of a cell with a separator, all of them inside matched
\* parentheses, that came back whole.
C4_Witness ==
    /\ spc = "done"
    /\ \E i \in 1..Len(Strip(cell)) : Strip(cell)[i] \in TOP_LEVEL_SEPS
    /\ SepsInsideParens(Strip(cell))
    /\ split_out = <<Strip(cell)>>

----------------------------------------------------------------------------
(* Properties of best_match (SpecMatch).                                   *)

ScoreAt(i) == Cardinality(option_keyset(parts[i]) \cap vkeys)

MaxScore ==
    CHOOSE m \in 0..Cardinality(vkeys) :
        /\ \A i \in 1..Len(parts) : ScoreAt(i) <= m
        /\ m = 0 \/ \E i \in 1..Len(parts) : ScoreAt(i) = m

FirstAtMax ==
    CHOOSE i \in 1..Len(parts) :
        ScoreAt(i) = MaxScore /\ \A j \in 1..(i - 1) : ScoreAt(j) # MaxScore

\* C1: with fragments and target keys both non-empty, best_match returns the
\* first fragment whose key set shares the most keys with the target when that
\* maximum is positive; otherwise the sole fragment of a one-element list, and
\* none for a longer list.
C1_BestMatch ==
    (mpc = "return" /\ parts # <<>> /\ vkeys # {})
        => picked = IF MaxScore > 0 THEN Some(parts[FirstAtMax])
                    ELSE IF Len(parts) = 1 THEN Some(parts[1])
                    ELSE None

\* Two different fragments tie at the positive maximum and the earlier one
\* was returned.
C1_Witness ==
    /\ mpc = "return" /\ parts # <<>> /\ vkeys # {}
    /\ MaxScore > 0
    /\ \E i, j \in 1..Len(parts) :
          /\ i < j /\ parts[i] # parts[j]
          /\ ScoreAt(i) = MaxScore /\ ScoreAt(j) = MaxScore
          /\ i = FirstAtMax
          /\ picked = Some(parts[i])

UnlabeledAt == {i \in 1..Len(parts) : IsUnlabeled(parts[i])}

FirstUnlabeled == CHOOSE i \in UnlabeledAt : \A j \in UnlabeledAt : i <= j

\* C2 as stated: for an empty target set with an unlabelled match sought, a
\* fragment is returned only when exactly one fragment is unlabelled or the
\* column has exactly one fragment; otherwise none.
C2_Original ==
    (mpc = "return" /\ vkeys = {} /\ want_unlabeled)
        => picked = IF Cardinality(UnlabeledAt) = 1 THEN Some(parts[FirstUnlabeled])
                    ELSE IF Len(parts) = 1 THEN Some(parts[1])
                    ELSE None

\* C2 amended: as C2, except that when two or more fragments of a column of
\* several fragments are unlabelled the first unlabelled fragment is
\* returned; none is returned only when no fragment is unlabelled (and the
\* column does not have exactly one fragment).
C2_FirstUnlabeled ==
    (mpc = "return" /\ vkeys = {} /\ want_unlabeled)
        => picked = IF Cardinality(UnlabeledAt) = 1 THEN Some(parts[FirstUnlabeled])
                    ELSE IF Len(parts) = 1 THEN Some(parts[1])
                    ELSE IF UnlabeledAt # {} THEN Some(parts[FirstUnlabeled])
                    ELSE None

\* A column that starts with a labelled fragment and holds two different
\* unlabelled ones; the first unlabelled one was returned.
C2_Witness ==
    /\ mpc = "return" /\ vkeys = {} /\ want_unlabeled
    /\ Cardinality(UnlabeledAt) >= 2
    /\ 1 \notin UnlabeledAt
    /\ \E i, j \in UnlabeledAt : parts[i] # parts[j]
    /\ picked = Some(parts[FirstUnlabeled])

----------------------------------------------------------------------------
(* Properties of parse_range (SpecRange).                                  *)

\* seg is exactly "M1-D1<to>M2-D2": two month-day pairs around the range marker.
IsMdToMd(s) ==
    /\ Len(s) = 11
    /\ MdAt(s, 1) /\ s[6] = W_To[1] /\ MdAt(s, 7)

Month1(s) == ToInt(SubSeq(s, 1, 2))
Day1(s) == ToInt(SubSeq(s, 4, 5))
Month2(s) == ToInt(SubSeq(s, 7, 8))
Day2(s) == ToInt(SubSeq(s, 10, 11))

\* The years the claim gives to the two ends.
ClaimedYears(s, ctx) ==
    IF Month1(s) > Month2(s)
    THEN (IF ctx = "res" THEN <<BASE_YEAR, BASE_YEAR + 1>>
          ELSE <<BASE_YEAR - 1, BASE_YEAR>>)
    ELSE <<BASE_YEAR, BASE_YEAR>>

\* C3: for a text "M1-D1<to>M2-D2" without years whose two ends are calendar
\* dates in the years named, parse_range returns start year BASE_YEAR-1 and
\* end year BASE_YEAR when M1 > M2 and the context is "reg" or "sub", start
\* year BASE_YEAR and end year BASE_YEAR+1 when M1 > M2 and the context is
\* "res", and BASE_YEAR for both ends when M1 <= M2.
C3_CrossYear ==
    (/\ rpc = "return"
     /\ IsMdToMd(seg)
     /\ ValidDate(ClaimedYears(seg, context)[1], Month1(seg), Day1(seg))
     /\ ValidDate(ClaimedYears(seg, context)[2], Month2(seg), Day2(seg)))
        => /\ ~range.raised
           /\ range.start = <<ClaimedYears(seg, context)[1], Month1(seg), Day1(seg)>>
           /\ range.end = <<ClaimedYears(seg, context)[2], Month2(seg), Day2(seg)>>

\* "08-30<to>01-06" parsed in context "res": BASE_YEAR to BASE_YEAR+1.
C3_Witness ==
    /\ rpc = "return"
    /\ seg = <<"0", "8", "-", "3", "0", "U+81F3", "0", "1", "-", "0", "6">>
    /\ context = "res"
    /\ range = [raised |-> FALSE, start |-> <<BASE_YEAR, 8, 30>>,
                end |-> <<BASE_YEAR + 1, 1, 6>>]

\* The most days month m has in any year.
MostDays(m) == IF m = 2 THEN 29 ELSE IF m \in {4, 6, 9, 11} THEN 30 ELSE 31

\* A month-day pair that is a calendar date in no year.
BadMonthDay(m, d) == m \notin 1..12 \/ d \notin 1..MostDays(m)

\* A full date occurs at i and is no calendar date.
BadFullAt(s, i) ==
    /\ FullAt(s, i)
    /\ ~ValidDate(ToInt(SubSeq(s, i, i + 3)), ToInt(SubSeq(s, i + 5, i + 6)),
                  ToInt(SubSeq(s, i + 8, i + 9)))

\* A month-day pair that is part of no full date occurs at i and is a calendar
\* date in no year.
BadMdAt(s, i) ==
    /\ MdAt(s, i)
    /\ \A j \in 1..Len(s) : FullAt(s, j) => (j + 9 < i \/ i + 4 < j)
    /\ (i > 1 => ~IsDigit(s[i - 1]))
    /\ BadMonthDay(ToInt(SubSeq(s, i, i + 1)), ToInt(SubSeq(s, i + 3, i + 4)))

HasMalformedDate(s) == \E i \in 1..Len(s) : BadFullAt(s, i) \/ BadMdAt(s, i)

\* C5 as stated: whenever the text holds a date pattern with an invalid month
\* or day, parse_range fails.
C5_Original == (rpc = "return" /\ HasMalformedDate(seg)) => range.raised

\* The date pattern parse_range reads in h: the month and day of the first
\* full date, else of the first month-day pair, else None.
ReadPattern(h) ==
    IF FullSearch(h) # None THEN <<FullSearch(h)[2], FullSearch(h)[3]>>
    ELSE MdSearch(h)

ReadsBad(h) ==
    ReadPattern(h) # None /\ BadMonthDay(ReadPattern(h)[1], ReadPattern(h)[2])

\* A date of a returned range is a calendar date whose month and day stand in
\* the text as written.
AsWritten(d) ==
    d # None =>
        /\ ValidDate(d[1], d[2], d[3])
        /\ \E i \in 1..Len(seg) :
              /\ MdAt(seg, i)
              /\ ToInt(SubSeq(seg, i, i + 1)) = d[2]
              /\ ToInt(SubSeq(seg, i + 3, i + 4)) = d[3]

\* C5 amended: let t be the text without parenthetical annotations and
\* whitespace, cut at the first cutoff marker when it has no range marker.
\* For a text without the "not yet announced" sentinel, parse_range fails
\* when the pattern it reads (the first full date, else the first month-day
\* pair) in t without a range marker, or in either half of t with a range
\* marker whose right half holds a pattern, has an invalid month or day; and
\* every date of a returned range is a calendar date with the month and day
\* written in the text (nothing is clamped).  Patterns it does not read (with
\* the sentinel, inside parentheses, after a cutoff marker, after the first
\* pattern of a half, left of a right half without pattern) are ignored.
C5_ReadDatesFailLoudly ==
    rpc = "return" =>
        /\ ~range.raised => (AsWritten(range.start) /\ AsWritten(range.end))
        /\ (Strip(seg) # <<>> /\ ~Contains(Strip(seg), W_WeiGongBu)) =>
              LET t == Preprocess(Strip(seg))
                  left == SplitFirst(t, W_To)
                  right == SplitRest(t, W_To)
              IN  IF Contains(t, W_To)
                  THEN (ReadPattern(right) # None /\ (ReadsBad(left) \/ ReadsBad(right)))
                            => range.raised
                  ELSE ReadsBad(t) => range.raised

\* A range whose left half reads month 13, day 32 and whose right half reads
\* a valid month-day pair: parse_range failed.
C5_Witness ==
    /\ rpc = "return"
    /\ ~Contains(seg, W_WeiGongBu)
    /\ Contains(Preprocess(Strip(seg)), W_To)
    /\ ReadsBad(SplitFirst(Preprocess(Strip(seg)), W_To))
    /\ ReadPattern(SplitRest(Preprocess(Strip(seg)), W_To)) # None
    /\ ~ReadsBad(SplitRest(Preprocess(Strip(seg)), W_To))
    /\ range.raised

----------------------------------------------------------------------------
(* build_seed_rows, run twice on the same rows.                            *)

Init ==
    /\ rows \in SeqsUpTo(RowPool, MaxRows)
    /\ run = 1 /\ rix = 1 /\ out = <<>> /\ oix = 0
    /\ seen = {} /\ dedup = <<>> /\ built = <<>> /\ bpc = "rows"
    /\ SplitIdle /\ MatchIdle /\ RangeIdle

\* lines 288-344, one row: its records are appended to out, unless a
\* parse_range raises, which ends the run.  The set of labels is iterated in
\* an order the run does not control.
ProcessRow ==
    /\ bpc = "rows"
    /\ rix <= Len(rows)
    /\ \E order \in IterationOrders(Labels(rows[rix])) :
          \E recs \in {RowRecords(rows[rix], order)} :
              IF \E i \in 1..Len(recs) : recs[i].raised
              THEN /\ bpc' = "raised"
                   /\ built' = Append(built, [raised |-> TRUE, rows |-> <<>>])
                   /\ UNCHANGED <<rix, out>>
              ELSE /\ out' = out \o [i \in 1..Len(recs) |-> recs[i].rec]
                   /\ rix' = rix + 1
                   /\ UNCHANGED <<bpc, built>>
    /\ UNCHANGED <<rows, run, oix, seen, dedup>>
    /\ UNCHANGED <<split_vars, match_vars, range_vars>>

\* lines 347-348
StartDedup ==
    /\ bpc = "rows"
    /\ rix > Len(rows)
    /\ seen' = {} /\ dedup' = <<>> /\ oix' = 1
    /\ bpc' = "dedup"
    /\ UNCHANGED <<rows, run, rix, out, built>>
    /\ UNCHANGED <<split_vars, match_vars, range_vars>>

\* lines 349-353
DedupStep ==
    /\ bpc = "dedup"
    /\ oix <= Len(out)
    /\ IF KeepRecord(out[oix], seen)
       THEN /\ seen' = seen \cup {out[oix].id}
            /\ dedup' = Append(dedup, out[oix])
       ELSE UNCHANGED <<seen, dedup>>
    /\ oix' = oix + 1
    /\ UNCHANGED <<rows, run, rix, out, built, bpc>>
    /\ UNCHANGED <<split_vars, match_vars, range_vars>>

\* line 354
Return ==
    /\ bpc = "dedup"
    /\ oix > Len(out)
    /\ built' = Append(built, [raised |-> FALSE, rows |-> dedup])
    /\ bpc' = "returned"
    /\ UNCHANGED <<rows, run, rix, out, oix, seen, dedup>>
    /\ UNCHANGED <<split_vars, match_vars, range_vars>>

\* build_seed_rows is called again on the same rows (line 418, a second
\* execution of the script).
Rerun ==
    /\ bpc \in {"returned", "raised"}
    /\ run = 1
    /\ run' = 2 /\ rix' = 1 /\ out' = <<>> /\ oix' = 0
    /\ seen' = {} /\ dedup' = <<>> /\ bpc' = "rows"
    /\ UNCHANGED <<rows, built>>
    /\ UNCHANGED <<split_vars, match_vars, range_vars>>

Next == ProcessRow \/ StartDedup \/ DedupStep \/ Return \/ Rerun

Spec == Init /\ [][Next]_vars

\* Both runs are over.
BothDone == run = 2 /\ bpc \in {"returned", "raised"}

----------------------------------------------------------------------------
(* Properties of build_seed_rows (Spec).                                   *)

NoTwoSameId(recs) ==
    \A i, j \in 1..Len(recs) : i # j => recs[i].id # recs[j].id

\* C6: the list build_seed_rows returns holds no two records with the same
\* identity and every record has an identity, also when two rows share a name
\* and derive the same variant; the same holds of the list while it is built.
C6_UniqueIds ==
    /\ NoTwoSameId(dedup)
    /\ \A k \in 1..Len(built) :
          /\ NoTwoSameId(built[k].rows)
          /\ \A i \in 1..Len(built[k].rows) : built[k].rows[i].id # None

\* Two rows of the same name derived the same variant, and the list returned
\* is shorter than the list of records produced.
C6_Witness ==
    /\ BothDone /\ bpc = "returned"
    /\ \E i, j \in 1..Len(out) : i < j /\ out[i].id = out[j].id
    /\ Len(built[2].rows) < Len(out)
    /\ NoTwoSameId(built[2].rows)

\* C7: two runs of build_seed_rows on the same rows end the same way, and
\* when they return, they return the same records in the same order with the
\* same field values, whatever the order in which the sets were iterated.
C7_Deterministic == BothDone => built[1] = built[2]

\* Both runs returned the records of a row with two labels, whose set of
\* labels can be iterated in two orders.
C7_Witness ==
    /\ BothDone /\ bpc = "returned"
    /\ \E i \in 1..Len(rows) : Cardinality(Labels(rows[i])) >= 2
    /\ Len(built[1].rows) >= 2
    /\ built[1] = built[2]

InfoFields ==
    { "notes", "registration_start", "registration_end", "submission_start",
      "submission_end", "result_start", "result_end",
      "registration_text", "submission_text", "result_text" }

Survivor(id) == dedup[CHOOSE k \in 1..Len(dedup) : dedup[k].id = id]

\* C8 as stated: when two records of a build have the same identity, the
\* record that survives holds, field by field, the more informative value of
\* the two: a field that is present in either is present in the survivor.
C8_CollisionMerged ==
    bpc = "returned" =>
        \A i, j \in 1..Len(out) :
            (i < j /\ out[i].id = out[j].id) =>
                \A f \in InfoFields :
                    (out[i][f] # None \/ out[j][f] # None)
                        => Survivor(out[i].id)[f] # None

\* C9 as stated: a row whose name is empty after trimming yields no output
\* record.
C9_NoNameSkipped ==
    \A k \in 1..Len(built) :
        \A i \in 1..Len(built[k].rows) : built[k].rows[i].name # <<>>

\* The columns of a row, as lists of fragments.
Columns(r) == {split_cell(r.reg), split_cell(r.sub), split_cell(r.res)}

\* C10 as stated: for every row processed, every non-empty variant v derived
\* for it and every column holding a fragment whose cleaned label is v,
\* label_keys(v) is not empty and best_match with these keys returns a
\* fragment whose key set holds every key of label_keys(v).
C10_VariantFindsItsFragment ==
    \A n \in 1..Len(rows) :
        (n < rix \/ run = 2) =>
            \A v \in Labels(rows[n]) :
                \A col \in Columns(rows[n]) :
                    (\E p \in Range(col) : clean_label(extract_label(p)) = v) =>
                        /\ label_keys(v) # {}
                        /\ best_match(col, label_keys(v), FALSE) # None
                        /\ label_keys(v) \subseteq
                               option_keyset(best_match(col, label_keys(v), FALSE)[1])

====
